---- MODULE Spec2Model ----
(***************************************************************************)
(* GST reconciliation backend (backend/main.py): the store (Taxpayer,      *)
(* Invoice, ISSUED, BILLED_TO, AuditEntry), the upload, trigger and        *)
(* status-update handlers, and the reconciliation pipeline                 *)
(* (build_networkx_graph, detect_mismatches, llm_audit / rule_based_audit, *)
(* store_audit_entry, run_reconciliation_pipeline).                        *)
(*                                                                         *)
(* Conventions.  Python dicts are TLA+ functions whose domain is the key   *)
(* set; d.get(k, v) is Get(d, k, v).  Strings are TLA+ strings, built with *)
(* \o as the f-strings build them; the arrow and rupee signs of the source *)
(* are written " -> " and "Rs".  tax_rate is kept in hundredths of a       *)
(* percent (18 is 1800, 0.25 is 25) so that the rate table stays integral. *)
(* created_at (a wall-clock stamp, line 406) is not modelled: no modelled  *)
(* operation reads it.                                                     *)
(***************************************************************************)
EXTENDS Integers, Sequences, FiniteSets, TLC

----------------------------------------------------------------------------
(* Bounds of the model. *)

\* pipeline runs that may be scheduled in one behaviour
MaxRuns == 2
\* rows of one uploaded file
MaxRows == 1
\* records the read query may return: an upload that would take the store
\* beyond is not made
MaxStoreRows == 2
\* status updates applied in one behaviour
MaxStatusUpdates == 1
\* store_audit_entry calls that fail in one behaviour
MaxWriteFailures == 1
\* rows of the store read handed to the detector on its own (SpecDetect)
MaxQueryRows == 2
\* tokens of a reply of the text service handed to llm_audit on its own
MaxReplyLen == 4

----------------------------------------------------------------------------
(* Generic helpers. *)

Get(d, k, default) == IF k \in DOMAIN d THEN d[k] ELSE default

\* {**a, **b}: the keys of both, b's value where both have the key
Merge(a, b) == b @@ a

Range(s) == {s[i] : i \in DOMAIN s}

SeqsUpTo(S, n) == UNION {[1..k -> S] : k \in 0..n}

Permutations1(S) ==
    {p \in [1..Cardinality(S) -> S] : \A i, j \in DOMAIN p : i # j => p[i] # p[j]}

RECURSIVE Join(_, _)
\* sep.join(parts)
Join(parts, sep) ==
    IF parts = <<>> THEN ""
    ELSE IF Len(parts) = 1 THEN parts[1]
    ELSE parts[1] \o sep \o Join(Tail(parts), sep)

Digit(d) ==
    CASE d = 0 -> "0" [] d = 1 -> "1" [] d = 2 -> "2" [] d = 3 -> "3"
      [] d = 4 -> "4" [] d = 5 -> "5" [] d = 6 -> "6" [] d = 7 -> "7"
      [] d = 8 -> "8" [] d = 9 -> "9"

RECURSIVE NatStr(_)
NatStr(n) == IF n < 10 THEN Digit(n) ELSE NatStr(n \div 10) \o Digit(n % 10)

RECURSIVE FormatAmount(_)
\* format(amt, ",.0f") of a whole, non-negative amount
FormatAmount(n) ==
    IF n < 1000 THEN NatStr(n)
    ELSE FormatAmount(n \div 1000) \o ","
         \o Digit((n % 1000) \div 100) \o Digit((n % 100) \div 10) \o Digit(n % 10)

\* str(float) of a rate held in hundredths: 1500 is "15.0", 750 "7.5", 25 "0.25"
FloatStr(h) ==
    NatStr(h \div 100) \o "." \o
    (IF h % 10 = 0 THEN Digit((h % 100) \div 10)
     ELSE Digit((h % 100) \div 10) \o Digit(h % 10))

----------------------------------------------------------------------------
(* Value domains the inputs are drawn from. *)

Gstins == {"A", "B"}
InvNos == {"i1", "i2"}
Period == "2024-01"

\* i.status as the store may hold it
Statuses == {"matched", "mismatch", "missing"}
\* i.hsn_code as the store may hold it
HsnCodes == {"", "nan", "1234", "12345"}
\* i.tax_rate as the store may hold it, in hundredths
TaxRates == {0, 1500, 1800}
\* i.amount as the store may hold it
Amounts == {1000}

VALID_TAX_RATES == {0, 10, 25, 100, 150, 300, 500, 600, 750, 900, 1200, 1400, 1800, 2800}

----------------------------------------------------------------------------
(* The in-memory graph: nx.DiGraph keeps nodes, and each node's            *)
(* predecessors and successors, in insertion order.                        *)

EmptyGraph == [nodes |-> <<>>, attr |-> <<>>, pred |-> <<>>, succ |-> <<>>]

HasNode(G, n) == n \in Range(G.nodes)

\* G.add_node(n, **attrs): a new node is appended, a known one updated
add_node(G, n, attrs) ==
    IF HasNode(G, n)
    THEN [G EXCEPT !.attr = [m \in DOMAIN G.attr |->
                                IF m = n THEN Merge(G.attr[m], attrs) ELSE G.attr[m]]]
    ELSE [nodes |-> Append(G.nodes, n),
          attr  |-> [m \in DOMAIN G.attr \cup {n} |->
                        IF m = n THEN attrs ELSE G.attr[m]],
          pred  |-> [m \in DOMAIN G.pred \cup {n} |->
                        IF m = n THEN <<>> ELSE G.pred[m]],
          succ  |-> [m \in DOMAIN G.succ \cup {n} |->
                        IF m = n THEN <<>> ELSE G.succ[m]]]

\* G.add_edge(u, v, rel=...): both ends are nodes already
add_edge(G, u, v) ==
    IF v \in Range(G.succ[u]) THEN G
    ELSE LET G1 == [G EXCEPT !.succ = [m \in DOMAIN G.succ |->
                        IF m = u THEN Append(G.succ[m], v) ELSE G.succ[m]]]
         IN  [G1 EXCEPT !.pred = [m \in DOMAIN G1.pred |->
                        IF m = v THEN Append(G1.pred[m], u) ELSE G1.pred[m]]]

\* one record of the read query, added to the graph (lines 197-204)
AddRow(G, r) ==
    LET G1 == add_node(G, r.supplier, [type |-> "Taxpayer"])
        G2 == add_node(G1, r.buyer, [type |-> "Taxpayer"])
        G3 == add_node(G2, r.inv_no,
                       [type |-> "Invoice", amount |-> r.amount, status |-> r.status,
                        hsn_code |-> r.hsn_code, tax_rate |-> r.tax_rate,
                        period |-> r.period])
        G4 == add_edge(G3, r.supplier, r.inv_no)
    IN  add_edge(G4, r.inv_no, r.buyer)

RECURSIVE GraphOfRows(_, _)
GraphOfRows(G, rows) ==
    IF rows = <<>> THEN G ELSE GraphOfRows(AddRow(G, Head(rows)), Tail(rows))

\* build_networkx_graph handing back what it built before the read failed
build_networkx_graphPartial(rows, readOk) ==
    [raised |-> FALSE, G |-> GraphOfRows(EmptyGraph, rows)]

\* build_networkx_graph: rows is the result of the read query in the order the
\* store returned it; readOk tells whether the driver was there and the query ran
\* to its end.  A failure raises: no graph is returned.
build_networkx_graph(rows, readOk) ==
    IF readOk THEN [raised |-> FALSE, G |-> GraphOfRows(EmptyGraph, rows)]
    ELSE [raised |-> TRUE, G |-> EmptyGraph]

----------------------------------------------------------------------------
(* Simple cycles.  nx.simple_cycles yields every simple directed cycle     *)
(* once, as a node list starting at a node, and in an order, that depend   *)
(* on the library's traversal: both are inputs of the detector here.       *)

IsSimpleCycle(G, c) ==
    /\ Len(c) >= 1
    /\ \A i, j \in DOMAIN c : i # j => c[i] # c[j]
    /\ \A i \in DOMAIN c : c[(i % Len(c)) + 1] \in Range(G.succ[c[i]])

SimpleCycleLists(G) ==
    {c \in UNION {[1..k -> Range(G.nodes)] : k \in 1..Len(G.nodes)} : IsSimpleCycle(G, c)}

\* the node lists that are one cycle: c and its rotations
Rotations(c) ==
    {[i \in DOMAIN c |-> c[((i + k - 1) % Len(c)) + 1]] : k \in 0..(Len(c) - 1)}

CycleClasses(G) == {Rotations(c) : c \in SimpleCycleLists(G)}

\* what nx.simple_cycles(G) may yield: each cycle once, in some rotation and order
CycleEnumerations(G) ==
    {e \in [1..Cardinality(CycleClasses(G)) -> SimpleCycleLists(G)] :
        \A i, j \in DOMAIN e : i # j => Rotations(e[i]) # Rotations(e[j])}

----------------------------------------------------------------------------
(* detect_mismatches *)

RECURSIVE SelectSeq2(_, _, _)
\* [n for n in cycle if G.nodes[n].get("type") == t]
SelectSeq2(G, c, t) ==
    IF c = <<>> THEN <<>>
    ELSE (IF Get(G.attr[Head(c)], "type", "") = t THEN <<Head(c)>> ELSE <<>>)
         \o SelectSeq2(G, Tail(c), t)

First(s, default) == IF s = <<>> THEN default ELSE s[1]

\* checks 1 and 2 read as one test: any status that is not matched is an amount
\* mismatch
StatusCheckNotMatched(status) ==
    IF status # "matched"
    THEN <<[t |-> "Amount Mismatch", sev |-> "high",
            path |-> <<"Invoice Node", "GSTR-1 Filing", "Supplier GSTIN",
                       "GSTR-2B Cross-Ref", "Buyer GSTIN">>]>>
    ELSE <<>>

\* checks 1 and 2 (lines 238-255), an if and its elif: the type, severity and
\* path of the finding the status calls for, if any
StatusCheck(status) ==
    IF status = "mismatch"
    THEN <<[t |-> "Amount Mismatch", sev |-> "high",
            path |-> <<"Invoice Node", "GSTR-1 Filing", "Supplier GSTIN",
                       "GSTR-2B Cross-Ref", "Buyer GSTIN">>]>>
    ELSE IF status = "missing"
    THEN <<[t |-> "Missing in GSTR-2B", sev |-> "high",
            path |-> <<"Invoice Node", "GSTR-1 Filing", "GSTIN Lookup",
                       "GSTR-2B (NOT FOUND)">>]>>
    ELSE <<>>

\* check 3 without the test for "nan": the text of an empty cell is a code
HsnCheckNoNan(hsn) ==
    IF hsn # "" /\ Len(hsn) \notin {4, 6, 8}
    THEN <<[t |-> "Invalid HSN Code", sev |-> "medium",
            path |-> <<"Invoice Node", "Product Description", "HSN Master Lookup",
                       "Category Validation">>]>>
    ELSE <<>>

\* check 3 (lines 257-265): the finding the hsn code calls for, if any
HsnCheck(hsn) ==
    IF hsn # "" /\ hsn \notin {"", "nan"} /\ Len(hsn) \notin {4, 6, 8}
    THEN <<[t |-> "Invalid HSN Code", sev |-> "medium",
            path |-> <<"Invoice Node", "Product Description", "HSN Master Lookup",
                       "Category Validation">>]>>
    ELSE <<>>

\* check 4 against the slabs the narrative names (0/5/12/18/28) in the place of
\* VALID_TAX_RATES
TaxRateCheckSlabs(tax_rate) ==
    IF tax_rate # 0 /\ tax_rate \notin {0, 500, 1200, 1800, 2800}
    THEN <<[t |-> "Invalid Tax Rate", sev |-> "medium",
            path |-> <<"Invoice Node", "HSN Code Lookup", "Tax Rate Validation",
                       "Rate Schedule Cross-Ref">>]>>
    ELSE <<>>

\* check 4 (lines 267-275): the finding the tax rate calls for, if any
TaxRateCheck(tax_rate) ==
    IF tax_rate # 0 /\ tax_rate \notin VALID_TAX_RATES
    THEN <<[t |-> "Invalid Tax Rate", sev |-> "medium",
            path |-> <<"Invoice Node", "HSN Code Lookup", "Tax Rate Validation",
                       "Rate Schedule Cross-Ref">>]>>
    ELSE <<>>

\* the findings of one node of the graph (lines 221-275)
NodeFindings(G, node) ==
    LET data     == G.attr[node]
        status   == Get(data, "status", "")
        amount   == Get(data, "amount", 0)
        hsn      == Get(data, "hsn_code", "")
        tax_rate == Get(data, "tax_rate", 0)
        period   == Get(data, "period", "")
        supplier == First(G.pred[node], "UNKNOWN")
        buyer    == First(G.succ[node], "UNKNOWN")
        raw      == [status |-> status, hsn |-> hsn, tax_rate |-> tax_rate]
        base(t, sev, path) ==
            [inv_no |-> node, supplier_gstin |-> supplier, buyer_gstin |-> buyer,
             amount |-> amount, period |-> period, mismatch_type |-> t,
             severity |-> sev, traversal_path |-> path, raw |-> raw]
        found(checks) ==
            [i \in DOMAIN checks |-> base(checks[i].t, checks[i].sev, checks[i].path)]
        check12 == found(StatusCheck(status))
        check3  == found(HsnCheck(hsn))
        check4  == found(TaxRateCheck(tax_rate))
    IN  IF Get(data, "type", "") # "Invoice" THEN <<>>
        ELSE check12 \o check3 \o check4

RECURSIVE InvoiceFindings(_, _)
\* the loop over G.nodes(data=True), over the node list left to visit
InvoiceFindings(G, nodes) ==
    IF nodes = <<>> THEN <<>>
    ELSE NodeFindings(G, Head(nodes)) \o InvoiceFindings(G, Tail(nodes))

\* the cycle test with the threshold one lower: any cycle through a taxpayer
CycleFindingAnyTaxpayer(G, cycle) ==
    LET taxpayers == SelectSeq2(G, cycle, "Taxpayer")
    IN  IF Len(taxpayers) >= 1
        THEN <<[inv_no |-> "CIRCULAR-PATTERN", supplier_gstin |-> taxpayers[1],
                buyer_gstin |-> taxpayers[Len(taxpayers)], amount |-> 0,
                period |-> "N/A", mismatch_type |-> "Circular Transaction Pattern",
                severity |-> "high", traversal_path |-> taxpayers,
                raw |-> [cycle |-> taxpayers]]>>
        ELSE <<>>

\* the finding of one yielded cycle, if any (lines 280-292)
CycleFinding(G, cycle) ==
    LET taxpayers == SelectSeq2(G, cycle, "Taxpayer")
    IN  IF Len(taxpayers) >= 2
        THEN <<[inv_no |-> "CIRCULAR-PATTERN", supplier_gstin |-> taxpayers[1],
                buyer_gstin |-> taxpayers[Len(taxpayers)], amount |-> 0,
                period |-> "N/A", mismatch_type |-> "Circular Transaction Pattern",
                severity |-> "high", traversal_path |-> taxpayers,
                raw |-> [cycle |-> taxpayers]]>>
        ELSE <<>>

RECURSIVE CircularFindings(_, _)
CircularFindings(G, cycles) ==
    IF cycles = <<>> THEN <<>>
    ELSE CycleFinding(G, Head(cycles)) \o CircularFindings(G, Tail(cycles))

\* detect_mismatches with check 5 ahead of the loop over the nodes
detect_mismatchesCyclesFirst(G, cycles) ==
    CircularFindings(G, cycles) \o InvoiceFindings(G, G.nodes)

\* detect_mismatches(G), cycles being what nx.simple_cycles(G) yields
detect_mismatches(G, cycles) ==
    InvoiceFindings(G, G.nodes) \o CircularFindings(G, cycles)

----------------------------------------------------------------------------
(* Narratives: rule_based_audit and llm_audit *)

\* the keys of the two template tables
KnownTypes ==
    {"Amount Mismatch", "Missing in GSTR-2B", "Invalid HSN Code", "Invalid Tax Rate",
     "Circular Transaction Pattern"}

\* the dict of descriptions (lines 312-323) made for the finding m
DescTable(m) ==
    LET inv == m.inv_no
        sup == m.supplier_gstin
        buy == m.buyer_gstin
        amt == m.amount
        raw == Get(m, "raw", <<>>)
    IN  [t \in KnownTypes |->
            CASE t = "Amount Mismatch" ->
                    "Invoice " \o inv \o " has an amount discrepancy between GSTR-1 filed by "
                    \o sup \o " and GSTR-2B of " \o buy \o ". Reported amount: Rs"
                    \o FormatAmount(amt) \o "."
              [] t = "Missing in GSTR-2B" ->
                    "Invoice " \o inv \o " reported by supplier " \o sup
                    \o " in GSTR-1 is completely absent in buyer " \o buy
                    \o "'s GSTR-2B auto-population."
              [] t = "Invalid HSN Code" ->
                    "Invoice " \o inv \o " contains HSN code '" \o Get(raw, "hsn", "None")
                    \o "' which does not conform to the 4/6/8-digit standard format."
              [] t = "Invalid Tax Rate" ->
                    "Invoice " \o inv \o " applies a tax rate of "
                    \o (IF "tax_rate" \in DOMAIN raw THEN FloatStr(raw.tax_rate) ELSE "None")
                    \o "% which is not a valid GST slab (0/5/12/18/28%)."
              [] t = "Circular Transaction Pattern" ->
                    "A circular transaction loop was detected involving GSTINs: "
                    \o Join(m.traversal_path, " -> ")
                    \o ". Potential fraudulent ITC claim."]

\* the dict of root causes (lines 325-336)
CauseTable ==
    [t \in KnownTypes |->
        CASE t = "Amount Mismatch" ->
                "Supplier likely made a manual data entry error in GSTR-1. The e-Invoice amount typically matches GSTR-2B."
          [] t = "Missing in GSTR-2B" ->
                "Buyer GSTIN was likely entered incorrectly by the supplier, preventing auto-population in GSTR-2B."
          [] t = "Invalid HSN Code" ->
                "Incorrect HSN mapping in supplier's ERP or accounting software. Requires correction and revised GSTR-1 filing."
          [] t = "Invalid Tax Rate" ->
                "Product was miscategorised in the supplier's system. Verify the correct HSN sub-category and applicable GST slab."
          [] t = "Circular Transaction Pattern" ->
                "Multiple taxpayers are issuing invoices to each other in a closed loop - a common pattern for fraudulent ITC claims."]

\* the tables looked up with an empty default: .get(t, "")
rule_based_auditNoDefault(m) ==
    LET t == m.mismatch_type
    IN  Merge(m, [description |-> Get(DescTable(m), t, ""),
                  root_cause |-> Get(CauseTable, t, "")])

\* rule_based_audit(m): the two template tables and their .get(t, default)
rule_based_audit(m) ==
    LET t     == m.mismatch_type
        inv   == m.inv_no
        desc  == Get(DescTable(m), t,
                     "Mismatch of type '" \o t \o "' detected on invoice " \o inv \o ".")
        cause == Get(CauseTable, t,
                     "Manual investigation required to determine root cause.")
    IN  Merge(m, [description |-> desc, root_cause |-> cause])

(* The text the service returns is a list of tokens: an opening brace, a   *)
(* closing brace, prose without braces, or one "key": "value" member of a  *)
(* JSON object (the commas between members go with the members).           *)

LBRACE == "{"
RBRACE == "}"
PROSE  == "Here is the audit note."

\* the members a reply may hold: its token, its key and its value
Members ==
    {[tok |-> "M:description", key |-> "description",
      value |-> "The amount filed by the supplier differs from the buyer's record."],
     [tok |-> "M:root_cause", key |-> "root_cause",
      value |-> "The supplier mistyped the amount."],
     [tok |-> "M:description-empty", key |-> "description", value |-> ""],
     [tok |-> "M:severity", key |-> "severity", value |-> "low"],
     [tok |-> "M:inv_no", key |-> "inv_no", value |-> "i2"]}

MemberTokens == {mb.tok : mb \in Members}
MemberOf(tok) == CHOOSE mb \in Members : mb.tok = tok

Tokens == {LBRACE, RBRACE, PROSE} \cup MemberTokens

\* re.search(r'\{.*\}', text, re.DOTALL): leftmost opening brace, then greedily up
\* to the last closing brace behind it; <<>> stands for no match
re_search(text) ==
    LET opens  == {i \in DOMAIN text : text[i] = LBRACE}
        first  == CHOOSE i \in opens : \A j \in opens : i <= j
        closes == {i \in DOMAIN text : text[i] = RBRACE /\ i > first}
        last   == CHOOSE i \in closes : \A j \in closes : j <= i
    IN  IF opens = {} THEN <<>>
        ELSE IF closes = {} THEN <<>>
        ELSE SubSeq(text, first, last)

RECURSIVE ObjectOf(_)
\* the dict of a list of members, a repeated key keeping its last value
ObjectOf(members) ==
    IF members = <<>> THEN <<>>
    ELSE LET mb == MemberOf(members[Len(members)])
             rest == ObjectOf(SubSeq(members, 1, Len(members) - 1))
         IN  Merge(rest, [k \in {mb.key} |-> mb.value])

\* json.loads(s) of a matched group s (it starts and ends with a brace):
\* a dict when only members lie between the braces, JSONDecodeError otherwise
json_loads(s) ==
    LET inner == SubSeq(s, 2, Len(s) - 1)
    IN  IF \A i \in DOMAIN inner : inner[i] \in MemberTokens
        THEN [raised |-> FALSE, value |-> ObjectOf(inner)]
        ELSE [raised |-> TRUE, value |-> <<>>]

\* what the awaited client.post and res.json()[...] come to
ReplyKinds == {"error", "timeout", "text"}

\* llm_audit without the fallback behind a reply that does not parse: the bare
\* finding is returned
llm_auditBare(m, key, reply) ==
    IF key = "" THEN rule_based_audit(m)
    ELSE IF reply.kind # "text" THEN rule_based_audit(m)
    ELSE LET match == re_search(reply.text)
         IN  IF match = <<>> THEN rule_based_audit(m)
             ELSE LET parsed == json_loads(match)
                  IN  IF parsed.raised THEN m
                      ELSE Merge(m, parsed.value)

\* llm_audit(m), key being GEMINI_KEY and reply what the service call comes to
\* (consulted only when a key is configured)
llm_audit(m, key, reply) ==
    IF key = "" THEN rule_based_audit(m)
    ELSE IF reply.kind # "text" THEN rule_based_audit(m)
    ELSE LET match == re_search(reply.text)
         IN  IF match = <<>> THEN rule_based_audit(m)
             ELSE LET parsed == json_loads(match)
                  IN  IF parsed.raised THEN rule_based_audit(m)
                      ELSE Merge(m, parsed.value)

----------------------------------------------------------------------------
(* The AuditEntry nodes of the store: a list of nodes, the position being  *)
(* the node's identity; a node is the dict of its properties.              *)

KeyOf(a) == <<a.inv_no, a.mismatch_type>>

\* CREATE in the place of MERGE: a node is created whether or not one matches
CreateAuditEntry(audits, inv_no, mismatch_type) ==
    Append(audits, [inv_no |-> inv_no, mismatch_type |-> mismatch_type])

\* MERGE (a:AuditEntry {inv_no: .., mismatch_type: ..}): the nodes matched, a
\* node being created when there is none
MergeAuditEntry(audits, inv_no, mismatch_type) ==
    IF \E i \in DOMAIN audits : KeyOf(audits[i]) = <<inv_no, mismatch_type>>
    THEN audits
    ELSE Append(audits, [inv_no |-> inv_no, mismatch_type |-> mismatch_type])

\* store_audit_entry with a.status set ON CREATE only: a status the entry has
\* is kept
store_audit_entryKeepStatus(audits, audit, writeOk) ==
    LET params ==
            [inv_no |-> audit.inv_no, mismatch_type |-> audit.mismatch_type,
             supplier_gstin |-> audit.supplier_gstin,
             buyer_gstin |-> audit.buyer_gstin, severity |-> audit.severity,
             amount |-> audit.amount, period |-> audit.period,
             description |-> Get(audit, "description", ""),
             root_cause |-> Get(audit, "root_cause", ""),
             traversal_path |-> Join(audit.traversal_path, " -> ")]
        merged == MergeAuditEntry(audits, audit.inv_no, audit.mismatch_type)
    IN  IF ~writeOk THEN audits
        ELSE [i \in DOMAIN merged |->
                IF KeyOf(merged[i]) = KeyOf(audit)
                THEN Merge(merged[i],
                           Merge(params,
                                 [status |-> Get(merged[i], "status", "flagged")]))
                ELSE merged[i]]

\* store_audit_entry with the properties set ON CREATE only: an entry that is
\* there is left as it is
store_audit_entryOnCreate(audits, audit, writeOk) ==
    LET params ==
            [inv_no |-> audit.inv_no, mismatch_type |-> audit.mismatch_type,
             supplier_gstin |-> audit.supplier_gstin,
             buyer_gstin |-> audit.buyer_gstin, severity |-> audit.severity,
             amount |-> audit.amount, period |-> audit.period,
             description |-> Get(audit, "description", ""),
             root_cause |-> Get(audit, "root_cause", ""),
             traversal_path |-> Join(audit.traversal_path, " -> ")]
    IN  IF ~writeOk THEN audits
        ELSE IF \E i \in DOMAIN audits : KeyOf(audits[i]) = KeyOf(audit)
        THEN audits
        ELSE Append(audits, Merge(params, [status |-> "flagged"]))

\* store_audit_entry(audit): MERGE, then SET on every node matched; a failure of
\* the store (writeOk false) is caught and logged, and nothing is written
store_audit_entry(audits, audit, writeOk) ==
    LET params ==
            [inv_no |-> audit.inv_no, mismatch_type |-> audit.mismatch_type,
             supplier_gstin |-> audit.supplier_gstin,
             buyer_gstin |-> audit.buyer_gstin, severity |-> audit.severity,
             amount |-> audit.amount, period |-> audit.period,
             description |-> Get(audit, "description", ""),
             root_cause |-> Get(audit, "root_cause", ""),
             traversal_path |-> Join(audit.traversal_path, " -> ")]
        merged == MergeAuditEntry(audits, audit.inv_no, audit.mismatch_type)
    IN  IF ~writeOk THEN audits
        ELSE [i \in DOMAIN merged |->
                IF KeyOf(merged[i]) = KeyOf(audit)
                THEN Merge(merged[i], Merge(params, [status |-> "flagged"]))
                ELSE merged[i]]

----------------------------------------------------------------------------
(* State. *)

VARIABLES
    driver,        \* the module's driver: "connected", or "None" when lifespan failed
    geminiKey,     \* GEMINI_KEY: "" when no credential is configured
    taxpayers,     \* the gstin of every Taxpayer node
    invoices,      \* inv_no -> the properties of that Invoice node
    issued,        \* the ISSUED edges, <<gstin, inv_no>>
    billedTo,      \* the BILLED_TO edges, <<inv_no, gstin>>
    audits,        \* the AuditEntry nodes
    runs,          \* the pipeline runs scheduled so far, in scheduling order
    loop,          \* the run that holds the event loop (0: none): a run gives the
                   \* loop up only at the awaited service call and when it returns
    statusUpdates, \* status updates applied so far
    callArgs,      \* the arguments of a function checked on its own
    callResult     \* and what it returned

graphVars == <<taxpayers, invoices, issued, billedTo>>
configVars == <<driver, geminiKey>>
callVars == <<callArgs, callResult>>
vars == <<driver, geminiKey, taxpayers, invoices, issued, billedTo, audits, runs,
          loop, statusUpdates, callArgs, callResult>>

NoCall == [fn |-> "none"]

\* a run of run_reconciliation_pipeline.  readFailed, rows, failed and undid
\* record what happened: that the store read failed, the records the read
\* query returned, the findings whose store_audit_entry call failed, and that
\* a write of this run met an entry whose status was reviewed or cleared
NewRun ==
    [state |-> "Scheduled", pc |-> "start", readFailed |-> FALSE, rows |-> {},
     mismatches |-> <<>>, idx |-> 0, failed |-> {}, undid |-> FALSE]

Init ==
    /\ driver \in {"connected", "None"}
    /\ geminiKey \in {"", "key"}
    /\ taxpayers = {}
    /\ invoices = <<>>
    /\ issued = {}
    /\ billedTo = {}
    /\ audits = <<>>
    /\ runs = <<>>
    /\ loop = 0
    /\ statusUpdates = 0
    /\ callArgs = NoCall
    /\ callResult = NoCall

----------------------------------------------------------------------------
(* upload_gst_data *)

\* the cells of an uploaded row, as pandas hands them over
GstinCells == {"A", " b "}
StatusCells == {" Mismatch"}
AmountCells == {"1000", "abc"}
HsnCells == {"1234"}

\* .str.strip().str.upper() on the gstin cells
StripUpper(cell) == CASE cell = " b " -> "B" [] OTHER -> cell
\* .str.strip().str.lower() on the status cells
StripLower(cell) == CASE cell = " Mismatch" -> "mismatch" [] OTHER -> cell
\* .str.strip() on the inv_no cells
Strip(cell) == cell
\* float(cell): ValueError on a cell that is no number
float(cell) ==
    CASE cell = "1000" -> [raised |-> FALSE, value |-> 1000]
      [] cell = "2000" -> [raised |-> FALSE, value |-> 2000]
      [] cell = "15" -> [raised |-> FALSE, value |-> 15]
      [] cell = "0" -> [raised |-> FALSE, value |-> 0]
      [] OTHER -> [raised |-> TRUE, value |-> 0]

\* the rows of the files uploaded: an invoice between two taxpayers, i1 being
\* issued by A
FileRows ==
    {r \in [supplier_gstin : GstinCells, buyer_gstin : GstinCells, inv_no : InvNos,
             amount : AmountCells, status : StatusCells, hsn_code : HsnCells] :
        /\ r.supplier_gstin # r.buyer_gstin
        /\ r.inv_no = "i1" => r.supplier_gstin = "A"}

\* row.get("tax_rate", 0) or 0, as the text float() is given
TaxRateCell(row) == Get(row, "tax_rate", "0")

\* the normalised row (lines 131-134) and the parameters of insert_q (153-161);
\* a column the file does not have reads as row.get's default, and no file has
\* a period column; the rate is kept in hundredths
RowParams(row) ==
    [supplier_gstin |-> StripUpper(row.supplier_gstin),
     buyer_gstin |-> StripUpper(row.buyer_gstin),
     inv_no |-> Strip(row.inv_no),
     amount |-> float(row.amount).value,
     status |-> StripLower(row.status),
     hsn_code |-> Get(row, "hsn_code", ""),
     tax_rate |-> 100 * float(TaxRateCell(row)).value,
     period |-> ""]

\* making the parameters of a row raises: ValueError of float() at line 156 or 159
RowRaises(row) == float(row.amount).raised \/ float(TaxRateCell(row)).raised

\* insert_q run with the parameters p: the store's graph after it
InsertRow(g, p) ==
    [taxpayers |-> g.taxpayers \cup {p.supplier_gstin, p.buyer_gstin},
     invoices |-> Merge(g.invoices,
                        [i \in {p.inv_no} |->
                            [amount |-> p.amount, status |-> p.status,
                             hsn_code |-> p.hsn_code, tax_rate |-> p.tax_rate,
                             period |-> p.period]]),
     issued |-> g.issued \cup {<<p.supplier_gstin, p.inv_no>>},
     billedTo |-> g.billedTo \cup {<<p.inv_no, p.buyer_gstin>>}]

RECURSIVE InsertRows(_, _, _)
\* the loop over df.iterrows() (lines 149-167): rows are inserted one by one
\* until a cell does not convert or the store fails (at row failAt; 0: never)
InsertRows(g, rows, failAt) ==
    IF rows = <<>> THEN [g |-> g, code |-> 200]
    ELSE IF RowRaises(Head(rows)) THEN [g |-> g, code |-> 500]
    ELSE IF failAt = 1 THEN [g |-> g, code |-> 503]
    ELSE InsertRows(InsertRow(g, RowParams(Head(rows))), Tail(rows),
                    IF failAt = 0 THEN 0 ELSE failAt - 1)

Graph == [taxpayers |-> taxpayers, invoices |-> invoices, issued |-> issued,
          billedTo |-> billedTo]

\* background_tasks.add_task(run_reconciliation_pipeline)
add_task(rs) == Append(rs, NewRun)

\* the records of the read query of build_networkx_graph (lines 187-193)
QueryRows(g) ==
    {[supplier |-> e[1], buyer |-> f[2], inv_no |-> e[2],
      amount |-> g.invoices[e[2]].amount, status |-> g.invoices[e[2]].status,
      hsn_code |-> g.invoices[e[2]].hsn_code, tax_rate |-> g.invoices[e[2]].tax_rate,
      period |-> g.invoices[e[2]].period] :
        <<e, f>> \in {p \in g.issued \X g.billedTo : p[1][2] = p[2][1]}}

\* upload_gst_data on a file that parsed and has the required columns; the
\* files turned down at lines 116-128 change nothing, and neither does an
\* upload that fails before its first write: they are no steps
upload_gst_data(rows, failAt) ==
    /\ loop = 0
    /\ driver # "None"
    /\ LET res == InsertRows(Graph, rows, failAt)
       IN  /\ res.code # 200 => res.g # Graph
           /\ Cardinality(QueryRows(res.g)) <= MaxStoreRows
           /\ res.code = 200 => Len(runs) < MaxRuns
           /\ taxpayers' = res.g.taxpayers
           /\ invoices' = res.g.invoices
           /\ issued' = res.g.issued
           /\ billedTo' = res.g.billedTo
           /\ runs' = IF res.code = 200 THEN add_task(runs) ELSE runs
    /\ UNCHANGED <<configVars, audits, loop, statusUpdates, callVars>>

Upload ==
    \E rows \in SeqsUpTo(FileRows, MaxRows) :
        \E failAt \in 0..Len(rows) : upload_gst_data(rows, failAt)

----------------------------------------------------------------------------
(* trigger_reconciliation *)

trigger_reconciliation ==
    /\ loop = 0
    /\ Len(runs) < MaxRuns
    /\ runs' = add_task(runs)
    /\ UNCHANGED <<configVars, graphVars, audits, loop, statusUpdates, callVars>>

----------------------------------------------------------------------------
(* update_audit_status *)

\* the update reaching one entry of inv_no, the first, as if inv_no were a key
SetStatusFirst(as, inv_no, new_status) ==
    [i \in DOMAIN as |->
        IF as[i].inv_no = inv_no /\ \A j \in 1..(i - 1) : as[j].inv_no # inv_no
        THEN Merge(as[i], [status |-> new_status])
        ELSE as[i]]

\* MATCH (a:AuditEntry {inv_no: $inv_no}) SET a.status = $s RETURN a
SetStatus(as, inv_no, new_status) ==
    [i \in DOMAIN as |->
        IF as[i].inv_no = inv_no THEN Merge(as[i], [status |-> new_status]) ELSE as[i]]

\* update_audit_status on a request that is answered 200; a request turned
\* down (400: no such status, 404: no entry of inv_no, 500: the store failed)
\* changes nothing and is no step
update_audit_status(inv_no, new_status, storeOk) ==
    /\ loop = 0
    /\ statusUpdates < MaxStatusUpdates
    /\ new_status \in {"flagged", "reviewed", "cleared"}
    /\ driver # "None"
    /\ storeOk
    /\ \E i \in DOMAIN audits : audits[i].inv_no = inv_no
    /\ audits' = SetStatus(audits, inv_no, new_status)
    /\ statusUpdates' = statusUpdates + 1
    /\ UNCHANGED <<configVars, graphVars, runs, loop, callVars>>

StatusValues == {"flagged", "reviewed", "cleared", "resolved"}

UpdateAuditStatus ==
    \E inv_no \in InvNos \cup {"CIRCULAR-PATTERN"}, new_status \in StatusValues,
       storeOk \in BOOLEAN :
        update_audit_status(inv_no, new_status, storeOk)

----------------------------------------------------------------------------
(* run_reconciliation_pipeline *)

\* the replies of the text service the pipeline is run against
PipelineReplies ==
    {[kind |-> "error", text |-> <<>>],
     [kind |-> "timeout", text |-> <<>>],
     [kind |-> "text", text |-> <<PROSE>>],
     [kind |-> "text", text |-> <<LBRACE, PROSE, RBRACE>>],
     [kind |-> "text", text |-> <<PROSE, LBRACE, "M:description", "M:root_cause", RBRACE>>]}

StatusBefore(as, audit) ==
    IF \E i \in DOMAIN as : KeyOf(as[i]) = KeyOf(audit)
    THEN (CHOOSE a \in Range(as) : KeyOf(a) = KeyOf(audit)).status
    ELSE "absent"

\* the background task starts: the run enters Running and holds the event loop
Dispatch(r) ==
    /\ loop = 0
    /\ r \in DOMAIN runs
    /\ runs[r].state = "Scheduled"
    /\ runs' = [runs EXCEPT ![r].state = "Running", ![r].pc = "snapshot"]
    /\ loop' = r
    /\ UNCHANGED <<configVars, graphVars, audits, statusUpdates, callVars>>

\* the except clause of line 443 leaving the run in a state of its own
AfterSnapshotFailed(run, built, found, readOk) ==
    IF built.raised
    THEN [run EXCEPT !.state = "Failed", !.pc = "done", !.readFailed = ~readOk]
    ELSE IF found = <<>>
    THEN [run EXCEPT !.state = "Idle", !.pc = "done", !.readFailed = ~readOk]
    ELSE [run EXCEPT !.pc = "narrative", !.mismatches = found, !.idx = 1,
                     !.readFailed = ~readOk]

\* lines 435-438 and 443-444: the run after build_networkx_graph returned built
\* (or raised) and detect_mismatches returned found
AfterSnapshot(run, built, found, readOk) ==
    IF built.raised
    THEN [run EXCEPT !.state = "Idle", !.pc = "done", !.readFailed = ~readOk]
    ELSE IF found = <<>>
    THEN [run EXCEPT !.state = "Idle", !.pc = "done", !.readFailed = ~readOk]
    ELSE [run EXCEPT !.pc = "narrative", !.mismatches = found, !.idx = 1,
                     !.readFailed = ~readOk]

\* a run that starts by deleting the entries there are, to write the trail anew
SnapshotStepPurge(r) ==
    /\ loop = r
    /\ runs[r].pc = "snapshot"
    /\ \E order \in Permutations1(QueryRows(Graph)), readOk \in BOOLEAN :
        \E n \in (IF readOk THEN {Len(order)} ELSE 0..Len(order)) :
            /\ driver = "None" => ~readOk
            /\ LET built == build_networkx_graph(SubSeq(order, 1, n), readOk)
               IN  \E cycles \in CycleEnumerations(built.G) :
                     LET after == AfterSnapshot(runs[r], built,
                                                detect_mismatches(built.G, cycles), readOk)
                         next == [after EXCEPT !.rows = IF readOk THEN Range(order) ELSE {}]
                     IN  /\ runs' = [runs EXCEPT ![r] = next]
                         /\ loop' = IF next.state = "Running" THEN r ELSE 0
                         /\ audits' = IF readOk THEN <<>> ELSE audits
    /\ UNCHANGED <<configVars, graphVars, statusUpdates>>

\* lines 436-438 of run r: the store is read, the graph built and searched
SnapshotStep(r) ==
    /\ loop = r
    /\ runs[r].pc = "snapshot"
    /\ \E order \in Permutations1(QueryRows(Graph)), readOk \in BOOLEAN :
        \E n \in (IF readOk THEN {Len(order)} ELSE 0..Len(order)) :
            /\ driver = "None" => ~readOk
            /\ LET built == build_networkx_graph(SubSeq(order, 1, n), readOk)
               IN  \E cycles \in CycleEnumerations(built.G) :
                     LET after == AfterSnapshot(runs[r], built,
                                                detect_mismatches(built.G, cycles), readOk)
                         next == [after EXCEPT !.rows = IF readOk THEN Range(order) ELSE {}]
                     IN  /\ runs' = [runs EXCEPT ![r] = next]
                         /\ loop' = IF next.state = "Running" THEN r ELSE 0
    /\ UNCHANGED <<configVars, graphVars, audits, statusUpdates>>

Snapshot(r) == SnapshotStep(r) /\ UNCHANGED callVars

\* the loop of line 439 left at the first write that fails
AfterStoreAbort(run, audit, writeOk, before) ==
    LET failed == IF writeOk THEN run.failed ELSE run.failed \cup {run.idx}
        undid  == run.undid \/ (writeOk /\ before \in {"reviewed", "cleared"})
    IN  IF ~writeOk
        THEN [run EXCEPT !.state = "Idle", !.pc = "done", !.failed = failed]
        ELSE IF run.idx = Len(run.mismatches)
        THEN [run EXCEPT !.state = "Idle", !.pc = "done", !.idx = run.idx + 1,
                         !.failed = failed, !.undid = undid]
        ELSE [run EXCEPT !.pc = "narrative", !.idx = run.idx + 1,
                         !.failed = failed, !.undid = undid]

\* lines 439-442: the run after store_audit_entry(audit) returned, the write
\* having gone through or failed (the failure is caught in store_audit_entry)
AfterStore(run, audit, writeOk, before) ==
    LET failed == IF writeOk THEN run.failed ELSE run.failed \cup {run.idx}
        undid  == run.undid \/ (writeOk /\ before \in {"reviewed", "cleared"})
    IN  IF run.idx = Len(run.mismatches)
        THEN [run EXCEPT !.state = "Idle", !.pc = "done", !.idx = run.idx + 1,
                         !.failed = failed, !.undid = undid]
        ELSE [run EXCEPT !.pc = "narrative", !.idx = run.idx + 1,
                         !.failed = failed, !.undid = undid]

RECURSIVE SumFailed(_)
SumFailed(rs) ==
    IF rs = <<>> THEN 0 ELSE Cardinality(Head(rs).failed) + SumFailed(Tail(rs))

\* the store_audit_entry calls that failed so far
WriteFailures == SumFailed(runs)

\* a run that finds the entry of its finding in the store, written by another
\* run, leaves it and ends
StoreAndGoOnFirstWins(r, audit, writeOk) ==
    /\ ~writeOk => WriteFailures < MaxWriteFailures
    /\ LET before == StatusBefore(audits, audit)
           next == IF before = "absent"
                   THEN AfterStore(runs[r], audit, writeOk, before)
                   ELSE [runs[r] EXCEPT !.state = "Idle", !.pc = "done"]
       IN  /\ runs' = [runs EXCEPT ![r] = next]
           /\ loop' = IF next.state = "Running" THEN r ELSE 0
           /\ audits' = IF before = "absent"
                        THEN store_audit_entry(audits, audit, writeOk)
                        ELSE audits

\* one turn of the loop of line 439 from llm_audit's return on
StoreAndGoOn(r, audit, writeOk) ==
    /\ ~writeOk => WriteFailures < MaxWriteFailures
    /\ LET next == AfterStore(runs[r], audit, writeOk, StatusBefore(audits, audit))
       IN  /\ runs' = [runs EXCEPT ![r] = next]
           /\ loop' = IF next.state = "Running" THEN r ELSE 0
    /\ audits' = store_audit_entry(audits, audit, writeOk)

\* llm_audit is entered for the finding at idx: without a key it returns at
\* once and the entry is stored; with a key the run awaits the service
Narrative(r) ==
    /\ loop = r
    /\ runs[r].pc = "narrative"
    /\ IF geminiKey = ""
       THEN \E audit \in {llm_audit(runs[r].mismatches[runs[r].idx], geminiKey,
                                    [kind |-> "error", text |-> <<>>])} :
              \E writeOk \in BOOLEAN : StoreAndGoOn(r, audit, writeOk)
       ELSE /\ runs' = [runs EXCEPT ![r].pc = "await"]
            /\ loop' = 0
            /\ UNCHANGED audits
    /\ UNCHANGED <<configVars, graphVars, statusUpdates, callVars>>

\* llm_audit with a retry: after a timeout the call is made again
ResumeRetry(r) ==
    /\ loop = 0
    /\ r \in DOMAIN runs
    /\ runs[r].pc = "await"
    /\ \E reply \in PipelineReplies :
        IF reply.kind = "timeout"
        THEN /\ runs' = [runs EXCEPT ![r].pc = "narrative"]
             /\ loop' = r
             /\ UNCHANGED audits
        ELSE \E audit \in {llm_audit(runs[r].mismatches[runs[r].idx], geminiKey, reply)} :
                \E writeOk \in BOOLEAN : StoreAndGoOn(r, audit, writeOk)
    /\ UNCHANGED <<configVars, graphVars, statusUpdates, callVars>>

\* the awaited call is over (a reply, an error or the 20 s timeout): llm_audit
\* returns and the entry is stored
Resume(r) ==
    /\ loop = 0
    /\ r \in DOMAIN runs
    /\ runs[r].pc = "await"
    /\ \E reply \in PipelineReplies :
        \E audit \in {llm_audit(runs[r].mismatches[runs[r].idx], geminiKey, reply)} :
            \E writeOk \in BOOLEAN : StoreAndGoOn(r, audit, writeOk)
    /\ UNCHANGED <<configVars, graphVars, statusUpdates, callVars>>

RunStep(r) == Dispatch(r) \/ Snapshot(r) \/ Narrative(r) \/ Resume(r)

----------------------------------------------------------------------------
(* The system. *)

Next ==
    \/ Upload
    \/ trigger_reconciliation
    \/ UpdateAuditStatus
    \/ \E r \in 1..MaxRuns : Dispatch(r)
    \/ \E r \in 1..MaxRuns : Snapshot(r)
    \/ \E r \in 1..MaxRuns : Narrative(r)
    \/ \E r \in 1..MaxRuns : Resume(r)

Spec == Init /\ [][Next]_vars

\* the event loop runs every task that is ready, and the service call ends
\* within its timeout
FairSpec == Spec /\ \A r \in 1..MaxRuns : WF_vars(RunStep(r))

----------------------------------------------------------------------------
(* detect_mismatches on its own: the graph is built from any result of the *)
(* read query, then searched.  Taxpayer and invoice identifiers are taken  *)
(* from disjoint sets.                                                     *)

\* the records the read query may return
DetectRows ==
    [supplier : Gstins, buyer : Gstins, inv_no : InvNos, amount : Amounts,
     status : Statuses, hsn_code : HsnCodes, tax_rate : TaxRates, period : {Period}]

\* the properties of an Invoice node are the same in every record of it
SameInvoice(a, b) ==
    a.inv_no = b.inv_no =>
        /\ a.amount = b.amount /\ a.status = b.status /\ a.hsn_code = b.hsn_code
        /\ a.tax_rate = b.tax_rate /\ a.period = b.period

DetectInputs ==
    {rs \in SeqsUpTo(DetectRows, MaxQueryRows) :
        \A i, j \in DOMAIN rs : /\ SameInvoice(rs[i], rs[j])
                                /\ rs[i] = rs[j] => i = j}

\* hsn codes of every length up to nine, and every rate of the table with
\* three rates (0.5, 15, 29) that are not in it
HsnCodesWide ==
    {"", "nan", "1", "12", "123", "1234", "12345", "123456", "1234567",
     "12345678", "123456789"}
TaxRatesWide == VALID_TAX_RATES \cup {50, 1500, 2900}

\* one record of one invoice, over the wide sets
WideInputs ==
    {<<[supplier |-> "A", buyer |-> "B", inv_no |-> "i1", amount |-> 1000,
        status |-> st, hsn_code |-> h, tax_rate |-> t, period |-> Period]>> :
        st \in Statuses, h \in HsnCodesWide, t \in TaxRatesWide}

InitDetect ==
    /\ driver = "connected"
    /\ geminiKey = ""
    /\ taxpayers = {}
    /\ invoices = <<>>
    /\ issued = {}
    /\ billedTo = {}
    /\ audits = <<>>
    /\ runs = <<>>
    /\ loop = 0
    /\ statusUpdates = 0
    /\ callArgs \in {[fn |-> "detect_mismatches", rows |-> rs] :
                        rs \in DetectInputs \cup WideInputs}
    /\ callResult = NoCall

\* lines 436-437: G = build_networkx_graph(); mismatches = detect_mismatches(G)
Detect ==
    /\ callArgs.fn = "detect_mismatches"
    /\ callResult = NoCall
    /\ LET G == build_networkx_graph(callArgs.rows, TRUE).G
       IN  \E cycles \in CycleEnumerations(G) :
             callResult' = [fn |-> "detect_mismatches", cycles |-> cycles,
                            mismatches |-> detect_mismatches(G, cycles)]
    /\ UNCHANGED <<configVars, graphVars, audits, runs, loop, statusUpdates, callArgs>>

NextDetect == Detect

SpecDetect == InitDetect /\ [][NextDetect]_vars

----------------------------------------------------------------------------
(* One turn of the pipeline's loop on its own: llm_audit on a finding,     *)
(* against any reply of the service, then store_audit_entry on an empty    *)
(* store.                                                                  *)

\* a graph with a finding of every type: i1 from A to B, i2 back from B to A
SampleRows ==
    <<[supplier |-> "A", buyer |-> "B", inv_no |-> "i1", amount |-> 1000,
       status |-> "mismatch", hsn_code |-> "12345", tax_rate |-> 1500,
       period |-> Period],
      [supplier |-> "B", buyer |-> "A", inv_no |-> "i2", amount |-> 1000,
       status |-> "missing", hsn_code |-> "1234", tax_rate |-> 1800,
       period |-> Period]>>

SampleGraph == build_networkx_graph(SampleRows, TRUE).G

\* what detect_mismatches finds in it
SampleFindings ==
    UNION {Range(detect_mismatches(SampleGraph, cycles)) :
             cycles \in CycleEnumerations(SampleGraph)}

\* a finding of a type that neither table has
OtherFinding ==
    [inv_no |-> "i1", supplier_gstin |-> "A", buyer_gstin |-> "B", amount |-> 1000,
     period |-> Period, mismatch_type |-> "Duplicate Invoice", severity |-> "low",
     traversal_path |-> <<"Invoice Node">>,
     raw |-> [status |-> "matched", hsn |-> "1234", tax_rate |-> 1800]]

\* what the service call may come to
Replies ==
    {[kind |-> k, text |-> <<>>] : k \in ReplyKinds \ {"text"}}
        \cup {[kind |-> "text", text |-> t] : t \in SeqsUpTo(Tokens, MaxReplyLen)}

InitAudit ==
    /\ driver = "connected"
    /\ geminiKey \in {"", "key"}
    /\ taxpayers = {}
    /\ invoices = <<>>
    /\ issued = {}
    /\ billedTo = {}
    /\ audits = <<>>
    /\ runs = <<>>
    /\ loop = 0
    /\ statusUpdates = 0
    /\ callArgs \in {[fn |-> "llm_audit", m |-> m, reply |-> reply] :
                        m \in SampleFindings \cup {OtherFinding}, reply \in Replies}
    /\ callResult = NoCall

\* lines 440-441: audit = await llm_audit(m); store_audit_entry(audit)
NarrateAndStore ==
    /\ callArgs.fn = "llm_audit"
    /\ callResult = NoCall
    /\ LET audit == llm_audit(callArgs.m, geminiKey, callArgs.reply)
       IN  /\ callResult' = [fn |-> "llm_audit", audit |-> audit]
           /\ audits' = store_audit_entry(audits, audit, TRUE)
    /\ UNCHANGED <<configVars, graphVars, runs, loop, statusUpdates, callArgs>>

NextAudit == NarrateAndStore

SpecAudit == InitAudit /\ [][NextAudit]_vars

----------------------------------------------------------------------------
(* upload_gst_data on its own: one request with any file, against a store  *)
(* that is empty or holds an invoice, and what it answers.                 *)

\* the rows a file may hold at most
MaxFileRows == 2

\* file.filename.endswith(".csv"), on the names uploaded
EndsWithCsv(name) == CASE name = "gst.csv" -> TRUE [] OTHER -> FALSE

RequiredColumns == {"supplier_gstin", "buyer_gstin", "inv_no", "amount", "status"}

\* the rows of a data frame, every column there
FullRows ==
    [supplier_gstin : {"A"}, buyer_gstin : {" b "}, inv_no : InvNos,
     amount : {"1000", "abc"}, status : {" Mismatch"}, hsn_code : {"1234"},
     tax_rate : {"15", "abc"}]

\* the data frames of the columns cols
FramesOver(cols) ==
    {[columns |-> cols, rows |-> rs] :
        rs \in SeqsUpTo({[c \in cols |-> row[c]] : row \in FullRows}, MaxFileRows)}

\* the files uploaded: a file that is not named .csv, a file pandas cannot
\* parse, and the files that parse: with and without a tax_rate column, and
\* without the amount column
Files ==
    {[name |-> "gst.xlsx", parses |-> TRUE, columns |-> {}, rows |-> <<>>],
     [name |-> "gst.CSV", parses |-> TRUE, columns |-> {}, rows |-> <<>>],
     [name |-> "gst.csv", parses |-> FALSE, columns |-> {}, rows |-> <<>>]}
    \cup {[name |-> "gst.csv", parses |-> TRUE, columns |-> f.columns, rows |-> f.rows] :
            f \in FramesOver(RequiredColumns \cup {"hsn_code"})
                \cup FramesOver(RequiredColumns \cup {"hsn_code", "tax_rate"})
                \cup FramesOver((RequiredColumns \ {"amount"}) \cup {"hsn_code"})}

\* upload_gst_data(file) against the store g, drv being the driver and failAt
\* the row at which the store fails (0: never): the status code and detail of
\* the answer, and the store after it.  get_driver's HTTPException is raised
\* inside the try of line 149 and caught at line 165
UploadResult(g, drv, file, failAt) ==
    IF ~EndsWithCsv(file.name)
    THEN [code |-> 400, detail |-> "Only CSV files are accepted.", g |-> g]
    ELSE IF ~file.parses
    THEN [code |-> 400, detail |-> "Could not parse CSV", g |-> g]
    ELSE IF RequiredColumns \ file.columns # {}
    THEN [code |-> 422, detail |-> "Missing columns", g |-> g]
    ELSE IF drv = "None"
    THEN [code |-> 500, detail |-> "Failed to store data.", g |-> g]
    ELSE LET res == InsertRows(g, file.rows, failAt)
         IN  IF res.code = 200 THEN [code |-> 200, detail |-> "", g |-> res.g]
             ELSE IF res.code = 503
             THEN [code |-> 503, detail |-> "Database unavailable.", g |-> res.g]
             ELSE [code |-> 500, detail |-> "Failed to store data.", g |-> res.g]

\* the store before the request: empty, or i1 from A to B
UploadStores ==
    {[taxpayers |-> {}, invoices |-> <<>>, issued |-> {}, billedTo |-> {}],
     InsertRow([taxpayers |-> {}, invoices |-> <<>>, issued |-> {}, billedTo |-> {}],
               [supplier_gstin |-> "A", buyer_gstin |-> "B", inv_no |-> "i1",
                amount |-> 2000, status |-> "matched", hsn_code |-> "1234",
                tax_rate |-> 1800, period |-> ""])}

InitUpload ==
    /\ driver \in {"connected", "None"}
    /\ geminiKey = ""
    /\ \E g \in UploadStores :
          /\ taxpayers = g.taxpayers
          /\ invoices = g.invoices
          /\ issued = g.issued
          /\ billedTo = g.billedTo
          /\ callArgs \in {[fn |-> "upload_gst_data", file |-> f, failAt |-> k,
                              before |-> g] : f \in Files, k \in 0..MaxFileRows}
    /\ callArgs.failAt <= Len(callArgs.file.rows)
    /\ audits = <<>>
    /\ runs = <<>>
    /\ loop = 0
    /\ statusUpdates = 0
    /\ callResult = NoCall

\* the request is served: the store after it, the run it scheduled and the
\* answer
UploadCall ==
    /\ callArgs.fn = "upload_gst_data"
    /\ callResult = NoCall
    /\ LET res == UploadResult(Graph, driver, callArgs.file, callArgs.failAt)
       IN  /\ taxpayers' = res.g.taxpayers
           /\ invoices' = res.g.invoices
           /\ issued' = res.g.issued
           /\ billedTo' = res.g.billedTo
           /\ runs' = IF res.code = 200 THEN add_task(runs) ELSE runs
           /\ callResult' = [fn |-> "upload_gst_data", code |-> res.code,
                             detail |-> res.detail]
    /\ UNCHANGED <<configVars, audits, loop, statusUpdates, callArgs>>

NextUpload == UploadCall

SpecUpload == InitUpload /\ [][NextUpload]_vars

----------------------------------------------------------------------------
(* update_audit_status on its own: one request against a store of three    *)
(* entries or none, and what it answers.                                   *)

\* the values of new_status asked for: the three statuses and three others
StatusesAsked == {"flagged", "reviewed", "cleared", "resolved", "Flagged", ""}

\* update_audit_status without the test of line 501
StatusResultAny(as, drv, inv_no, new_status, storeOk) ==
    IF drv = "None"
    THEN [code |-> 503, audits |-> as]
    ELSE IF ~storeOk
    THEN [code |-> 500, audits |-> as]
    ELSE IF ~ \E i \in DOMAIN as : as[i].inv_no = inv_no
    THEN [code |-> 404, audits |-> as]
    ELSE [code |-> 200, audits |-> SetStatus(as, inv_no, new_status)]

\* update_audit_status(inv_no, new_status) against the entries as, drv being
\* the driver and storeOk that the store runs the query: the status code of
\* the answer and the entries after it
StatusResult(as, drv, inv_no, new_status, storeOk) ==
    IF new_status \notin {"flagged", "reviewed", "cleared"}
    THEN [code |-> 400, audits |-> as]
    ELSE IF drv = "None"
    THEN [code |-> 503, audits |-> as]
    ELSE IF ~storeOk
    THEN [code |-> 500, audits |-> as]
    ELSE IF ~ \E i \in DOMAIN as : as[i].inv_no = inv_no
    THEN [code |-> 404, audits |-> as]
    ELSE [code |-> 200, audits |-> SetStatus(as, inv_no, new_status)]

\* three entries a run wrote: two of i1 and one of i2
SampleEntries ==
    LET found == detect_mismatches(SampleGraph, <<>>)
    IN  store_audit_entry(
            store_audit_entry(
                store_audit_entry(<<>>, rule_based_audit(found[1]), TRUE),
                rule_based_audit(found[2]), TRUE),
            rule_based_audit(found[4]), TRUE)

\* the stores of the request: none, or the three entries in any status
StatusStores ==
    {<<>>} \cup
    {[i \in DOMAIN SampleEntries |-> Merge(SampleEntries[i], [status |-> st[i]])] :
        st \in [DOMAIN SampleEntries -> {"flagged", "reviewed", "cleared"}]}

InitStatus ==
    /\ driver \in {"connected", "None"}
    /\ geminiKey = ""
    /\ taxpayers = {}
    /\ invoices = <<>>
    /\ issued = {}
    /\ billedTo = {}
    /\ audits \in StatusStores
    /\ runs = <<>>
    /\ loop = 0
    /\ statusUpdates = 0
    /\ callArgs \in {[fn |-> "update_audit_status", inv_no |-> inv_no,
                        new_status |-> st, storeOk |-> ok, before |-> as] :
                        inv_no \in InvNos \cup {"CIRCULAR-PATTERN"}, st \in StatusesAsked,
                        ok \in BOOLEAN, as \in StatusStores}
    /\ callArgs.before = audits
    /\ callResult = NoCall

\* the request is served
StatusCall ==
    /\ callArgs.fn = "update_audit_status"
    /\ callResult = NoCall
    /\ LET res == StatusResult(audits, driver, callArgs.inv_no, callArgs.new_status,
                               callArgs.storeOk)
       IN  /\ audits' = res.audits
           /\ callResult' = [fn |-> "update_audit_status", code |-> res.code]
    /\ UNCHANGED <<configVars, graphVars, runs, loop, statusUpdates, callArgs>>

NextStatus == StatusCall

SpecStatus == InitStatus /\ [][NextStatus]_vars

----------------------------------------------------------------------------
(* The service with its answers: the requests are served one after the     *)
(* other, each answer is kept (callResult, numbered), and so is the order  *)
(* in which the runs read the store (callArgs).  The uploads are files of  *)
(* one row of the invoice i1, whose amount and status change from file to  *)
(* file.                                                                   *)

\* the requests served at most
MaxRequests == 3

ServiceFiles ==
    {[name |-> "gst.xlsx", parses |-> TRUE, columns |-> {}, rows |-> <<>>]}
    \cup {[name |-> "gst.csv", parses |-> TRUE,
            columns |-> RequiredColumns \cup {"hsn_code"},
            rows |-> <<[supplier_gstin |-> "A", buyer_gstin |-> " b ", inv_no |-> "i1",
                        amount |-> amt, status |-> st, hsn_code |-> "1234"]>>] :
            amt \in {"1000", "2000"}, st \in {" Mismatch", "matched"}}
    \cup {[name |-> "gst.csv", parses |-> TRUE,
            columns |-> RequiredColumns \cup {"hsn_code"},
            rows |-> <<[supplier_gstin |-> "A", buyer_gstin |-> " b ", inv_no |-> "i1",
                        amount |-> "abc", status |-> " Mismatch", hsn_code |-> "1234"]>>]}

NoAnswer == [fn |-> "none", seq |-> 0, code |-> 0]

InitService ==
    /\ driver \in {"connected", "None"}
    /\ geminiKey \in {"", "key"}
    /\ taxpayers = {}
    /\ invoices = <<>>
    /\ issued = {}
    /\ billedTo = {}
    /\ audits = <<>>
    /\ runs = <<>>
    /\ loop = 0
    /\ statusUpdates = 0
    /\ callArgs = <<>>
    /\ callResult = NoAnswer

\* POST /api/v1/upload is served
UploadRequest ==
    /\ loop = 0
    /\ callResult.seq < MaxRequests
    /\ \E file \in ServiceFiles, failAt \in 0..1 :
        /\ failAt <= Len(file.rows)
        /\ LET res == UploadResult(Graph, driver, file, failAt)
           IN  /\ res.code = 200 => Len(runs) < MaxRuns
               /\ taxpayers' = res.g.taxpayers
               /\ invoices' = res.g.invoices
               /\ issued' = res.g.issued
               /\ billedTo' = res.g.billedTo
               /\ runs' = IF res.code = 200 THEN add_task(runs) ELSE runs
               /\ callResult' = [fn |-> "upload_gst_data", seq |-> callResult.seq + 1,
                                 code |-> res.code]
    /\ UNCHANGED <<configVars, audits, loop, statusUpdates, callArgs>>

\* the handler awaiting the pipeline in the place of add_task: the run is under
\* way when the request is answered
TriggerRequestInline ==
    /\ loop = 0
    /\ callResult.seq < MaxRequests
    /\ Len(runs) < MaxRuns
    /\ runs' = Append(runs, [NewRun EXCEPT !.state = "Running", !.pc = "snapshot"])
    /\ loop' = Len(runs) + 1
    /\ callResult' = [fn |-> "trigger_reconciliation", seq |-> callResult.seq + 1,
                      code |-> 200]
    /\ UNCHANGED <<configVars, graphVars, audits, statusUpdates, callArgs>>

\* POST /api/v1/reconcile is served (lines 491-495)
TriggerRequest ==
    /\ loop = 0
    /\ callResult.seq < MaxRequests
    /\ Len(runs) < MaxRuns
    /\ runs' = add_task(runs)
    /\ callResult' = [fn |-> "trigger_reconciliation", seq |-> callResult.seq + 1,
                      code |-> 200]
    /\ UNCHANGED <<configVars, graphVars, audits, loop, statusUpdates, callArgs>>

\* PATCH /api/v1/audit-trail/{inv_no}/status is served
StatusRequest ==
    /\ loop = 0
    /\ callResult.seq < MaxRequests
    /\ \E inv_no \in InvNos, new_status \in {"reviewed", "resolved"}, storeOk \in BOOLEAN :
        LET res == StatusResult(audits, driver, inv_no, new_status, storeOk)
        IN  /\ audits' = res.audits
            /\ statusUpdates' = IF res.code = 200 THEN statusUpdates + 1 ELSE statusUpdates
            /\ callResult' = [fn |-> "update_audit_status", seq |-> callResult.seq + 1,
                              code |-> res.code]
    /\ UNCHANGED <<configVars, graphVars, runs, loop, callArgs>>

\* the read of run r, noted in the order of the reads
ServiceSnapshot(r) ==
    /\ SnapshotStep(r)
    /\ callArgs' = Append(callArgs, r)
    /\ UNCHANGED callResult

NextService ==
    \/ UploadRequest
    \/ TriggerRequest
    \/ StatusRequest
    \/ \E r \in 1..MaxRuns : Dispatch(r)
    \/ \E r \in 1..MaxRuns : ServiceSnapshot(r)
    \/ \E r \in 1..MaxRuns : Narrative(r)
    \/ \E r \in 1..MaxRuns : Resume(r)

SpecService == InitService /\ [][NextService]_vars

----------------------------------------------------------------------------
(* One run on its own, over a store that has a finding of every type: the  *)
(* invoices of SampleRows.                                                 *)

SampleStore ==
    LET params(row) ==
            [supplier_gstin |-> row.supplier, buyer_gstin |-> row.buyer,
             inv_no |-> row.inv_no, amount |-> row.amount, status |-> row.status,
             hsn_code |-> row.hsn_code, tax_rate |-> row.tax_rate, period |-> row.period]
        empty == [taxpayers |-> {}, invoices |-> <<>>, issued |-> {}, billedTo |-> {}]
    IN  InsertRow(InsertRow(empty, params(SampleRows[1])), params(SampleRows[2]))

InitRun ==
    /\ driver = "connected"
    /\ geminiKey \in {"", "key"}
    /\ taxpayers = SampleStore.taxpayers
    /\ invoices = SampleStore.invoices
    /\ issued = SampleStore.issued
    /\ billedTo = SampleStore.billedTo
    /\ audits = <<>>
    /\ runs = add_task(<<>>)
    /\ loop = 0
    /\ statusUpdates = 0
    /\ callArgs = NoCall
    /\ callResult = NoCall

NextRun ==
    \/ \E r \in 1..MaxRuns : Dispatch(r)
    \/ \E r \in 1..MaxRuns : Snapshot(r)
    \/ \E r \in 1..MaxRuns : Narrative(r)
    \/ \E r \in 1..MaxRuns : Resume(r)

SpecRun == InitRun /\ [][NextRun]_vars

----------------------------------------------------------------------------
(* One run over a store with two cycles: i1 and i3 from A to B, i2 back    *)
(* from B to A.  Both cycles go through A and B; the path of a cycle's     *)
(* finding is A, B or B, A with the node simple_cycles starts the cycle at.*)

CycleStore ==
    LET params(inv_no, supplier, buyer, status) ==
            [supplier_gstin |-> supplier, buyer_gstin |-> buyer, inv_no |-> inv_no,
             amount |-> 1000, status |-> status, hsn_code |-> "1234",
             tax_rate |-> 1800, period |-> Period]
        empty == [taxpayers |-> {}, invoices |-> <<>>, issued |-> {}, billedTo |-> {}]
    IN  InsertRow(InsertRow(InsertRow(empty, params("i1", "A", "B", "mismatch")),
                            params("i2", "B", "A", "matched")),
                  params("i3", "A", "B", "matched"))

InitCycles ==
    /\ driver = "connected"
    /\ geminiKey \in {"", "key"}
    /\ taxpayers = CycleStore.taxpayers
    /\ invoices = CycleStore.invoices
    /\ issued = CycleStore.issued
    /\ billedTo = CycleStore.billedTo
    /\ audits = <<>>
    /\ runs = add_task(<<>>)
    /\ loop = 0
    /\ statusUpdates = 0
    /\ callArgs = NoCall
    /\ callResult = NoCall

NextCycles ==
    \/ \E r \in 1..MaxRuns : Dispatch(r)
    \/ \E r \in 1..MaxRuns : Snapshot(r)
    \/ \E r \in 1..MaxRuns : Narrative(r)
    \/ \E r \in 1..MaxRuns : Resume(r)

SpecCycles == InitCycles /\ [][NextCycles]_vars

----------------------------------------------------------------------------
(* Properties. *)

\* the AuditEntry nodes stored under a key
EntriesOf(key) == {i \in DOMAIN audits : KeyOf(audits[i]) = key}

\* the findings of run r whose store_audit_entry call has returned without a
\* failure
Written(r) ==
    {i \in DOMAIN runs[r].mismatches : i < runs[r].idx /\ i \notin runs[r].failed}

\* C1: the store holds at most one AuditEntry per (inv_no, mismatch_type) key,
\* however many runs wrote it, and exactly one for every finding a run has
\* written.
C1_OneEntryPerKey ==
    /\ \A i, j \in DOMAIN audits : KeyOf(audits[i]) = KeyOf(audits[j]) => i = j
    /\ \A r \in DOMAIN runs : \A i \in Written(r) :
          Cardinality(EntriesOf(KeyOf(runs[r].mismatches[i]))) = 1

\* two runs have each written the same finding, and its entry is there
C1_Witness ==
    \E r, q \in DOMAIN runs :
        /\ r # q
        /\ \E i \in Written(r), j \in Written(q) :
              /\ runs[r].mismatches[i] = runs[q].mismatches[j]
              /\ EntriesOf(KeyOf(runs[r].mismatches[i])) # {}

\* the narratives llm_audit may return for the finding m in a run
Narratives(m) == {llm_audit(m, geminiKey, reply) : reply \in PipelineReplies}

\* C2: a write of a finding by a run leaves the entry of its key with status
\* flagged, whatever its status was, and with the description, root_cause and
\* severity of the audit the run has just made.
C2_UpsertResets ==
    [][\A r \in DOMAIN runs :
          (/\ runs[r].idx >= 1
           /\ runs'[r].idx = runs[r].idx + 1
           /\ runs[r].idx \notin runs'[r].failed)
          => LET m == runs[r].mismatches[runs[r].idx]
                 old == {audits[i] : i \in EntriesOf(KeyOf(m))}
                 new == {audits'[i] : i \in {j \in DOMAIN audits' :
                                                KeyOf(audits'[j]) = KeyOf(m)}}
             IN  /\ new # {}
                 /\ Cardinality(new) >= Cardinality(old)
                 /\ \A a \in new :
                       /\ a.status = "flagged"
                       /\ \E audit \in Narratives(m) :
                             /\ a.description = audit.description
                             /\ a.root_cause = audit.root_cause
                             /\ a.severity = audit.severity]_vars

\* a run has written over an entry whose status was reviewed or cleared, and
\* every entry of the keys it wrote is flagged
C2_Witness ==
    \E r \in DOMAIN runs :
        /\ runs[r].undid
        /\ runs[r].state = "Idle"
        /\ statusUpdates = 1
        /\ \A i \in Written(r) :
              \A j \in EntriesOf(KeyOf(runs[r].mismatches[i])) :
                  audits[j].status = "flagged"

\* C3: a store_audit_entry call that fails is logged and does not end the run:
\* a run that read the store goes through its whole detection list, and every
\* finding whose write did not fail has its entry.
C3_FailureIsolated ==
    \A r \in DOMAIN runs :
        /\ (runs[r].state = "Idle" /\ ~runs[r].readFailed)
              => runs[r].idx = (IF runs[r].mismatches = <<>> THEN 0
                                ELSE Len(runs[r].mismatches) + 1)
        /\ runs[r].failed \subseteq 1..(runs[r].idx - 1)
        /\ \A i \in Written(r) : EntriesOf(KeyOf(runs[r].mismatches[i])) # {}

\* a finished run whose write of a finding failed and whose write of the next
\* finding went through
C3_Witness ==
    \E r \in DOMAIN runs :
        /\ runs[r].state = "Idle"
        /\ \E i \in runs[r].failed :
              /\ i + 1 \in Written(r)
              /\ EntriesOf(KeyOf(runs[r].mismatches[i + 1])) # {}

\* C4: a run whose read of the store failed is Idle, has no graph and no
\* findings, has made no narrative and has written nothing; the step in which
\* the read fails leaves the AuditEntry nodes as they were.
C4_SnapshotFailureAborts ==
    /\ [](\A r \in DOMAIN runs :
            runs[r].readFailed =>
                /\ runs[r].state = "Idle"
                /\ runs[r].rows = {}
                /\ runs[r].mismatches = <<>>
                /\ runs[r].idx = 0
                /\ runs[r].failed = {})
    /\ [][\A r \in DOMAIN runs :
            (~runs[r].readFailed /\ runs'[r].readFailed) => audits' = audits]_vars

\* a run whose read failed with the driver there and invoices in the store
C4_Witness ==
    \E r \in DOMAIN runs :
        /\ runs[r].readFailed
        /\ runs[r].state = "Idle"
        /\ driver = "connected"
        /\ invoices # <<>>

\* C5: every run that is Running is Idle later on: no run stays Running for
\* ever, a run leaves Running for Idle only and stays Idle; and a run is never
\* in a state other than Scheduled, Running and Idle.
C5_RunsReturnToIdle ==
    /\ \A r \in 1..MaxRuns :
          []<>(r \in DOMAIN runs => runs[r].state # "Running")
    /\ [][\A r \in DOMAIN runs :
            /\ runs[r].state = "Running" => runs'[r].state \in {"Running", "Idle"}
            /\ runs[r].state = "Idle" => runs'[r].state = "Idle"]_vars
    /\ [](\A r \in DOMAIN runs : runs[r].state \in {"Scheduled", "Running", "Idle"})

\* a run whose read failed and a run one of whose writes failed are Idle
C5_Witness ==
    \E r, q \in DOMAIN runs :
        /\ runs[r].state = "Idle" /\ runs[r].readFailed
        /\ runs[q].state = "Idle" /\ runs[q].failed # {}

\* the reply has no opening brace with a closing brace behind it
NoBraceObject(text) ==
    ~ \E i, j \in DOMAIN text : i < j /\ text[i] = LBRACE /\ text[j] = RBRACE

\* something other than members stands between the first opening brace of
\* the reply and its last closing brace
MalformedJson(text) ==
    \E i, j \in DOMAIN text :
        /\ i < j /\ text[i] = LBRACE /\ text[j] = RBRACE
        /\ \A k \in DOMAIN text : text[k] = LBRACE => i <= k
        /\ \A k \in DOMAIN text : text[k] = RBRACE => k <= j
        /\ \E k \in (i + 1)..(j - 1) : text[k] \notin MemberTokens

ServiceFailed(reply) ==
    \/ reply.kind \in {"error", "timeout"}
    \/ reply.kind = "text" /\ NoBraceObject(reply.text)
    \/ reply.kind = "text" /\ MalformedJson(reply.text)

\* C6: llm_audit returns a dict that carries the finding; when the call errors
\* or times out, or the reply holds no brace-delimited object or one that is
\* not JSON, that dict is rule_based_audit's, whose description and root_cause
\* are not empty.
C6_FallbackNarrative ==
    callResult.fn = "llm_audit" =>
        LET m == callArgs.m
            audit == callResult.audit
        IN  /\ DOMAIN m \subseteq DOMAIN audit
            /\ (geminiKey # "" /\ ServiceFailed(callArgs.reply)) =>
                  /\ audit = rule_based_audit(m)
                  /\ audit.description # ""
                  /\ audit.root_cause # ""

\* with a key configured, a reply whose braces hold prose came back and the
\* fallback narrative was returned
C6_Witness ==
    /\ callResult.fn = "llm_audit"
    /\ geminiKey # ""
    /\ callArgs.reply.kind = "text"
    /\ MalformedJson(callArgs.reply.text)
    /\ callResult.audit = rule_based_audit(callArgs.m)

\* what the detector derives of an entry
DetectorAttrs(a) ==
    [inv_no |-> a.inv_no, mismatch_type |-> a.mismatch_type,
     supplier_gstin |-> a.supplier_gstin, buyer_gstin |-> a.buyer_gstin,
     severity |-> a.severity, amount |-> a.amount, period |-> a.period,
     status |-> a.status]

RECURSIVE SingleRun(_, _)
\* the store a run leaves that writes the findings ms, one after the other,
\* into the store as
SingleRun(as, ms) ==
    IF ms = <<>> THEN as
    ELSE SingleRun(store_audit_entry(as, rule_based_audit(Head(ms)), TRUE), Tail(ms))

\* the runs read the same records, and no status was set by hand
OneSnapshot ==
    /\ Len(runs) >= 2
    /\ statusUpdates = 0
    /\ \A r \in DOMAIN runs : ~runs[r].readFailed /\ runs[r].rows = runs[1].rows

\* every run is over, and every finding was written by one of them at least
RunsOver ==
    \A r \in DOMAIN runs :
        /\ runs[r].state = "Idle"
        /\ \A i \in DOMAIN runs[r].mismatches :
              \E q \in DOMAIN runs : \E j \in Written(q) :
                  KeyOf(runs[q].mismatches[j]) = KeyOf(runs[r].mismatches[i])

C8_StatusFindings ==
    callResult.fn = "detect_mismatches" =>
        \A row \in Range(callArgs.rows) :
            LET found == callResult.mismatches
                of(t) == {i \in DOMAIN found :
                            found[i].inv_no = row.inv_no /\ found[i].mismatch_type = t}
                amount  == of("Amount Mismatch")
                missing == of("Missing in GSTR-2B")
            IN  /\ Cardinality(amount) = (IF row.status = "mismatch" THEN 1 ELSE 0)
                /\ Cardinality(missing) = (IF row.status = "missing" THEN 1 ELSE 0)
                /\ \A i \in amount \cup missing : found[i].severity = "high"
                /\ amount = {} \/ missing = {}

\* the findings of records with an invoice of status mismatch, one of status
\* missing: one finding each
C8_Witness ==
    /\ callResult.fn = "detect_mismatches"
    /\ \E a, b \in Range(callArgs.rows) :
          /\ a.status = "mismatch" /\ b.status = "missing"
          /\ \E i, j \in DOMAIN callResult.mismatches :
                /\ callResult.mismatches[i].inv_no = a.inv_no
                /\ callResult.mismatches[i].mismatch_type = "Amount Mismatch"
                /\ callResult.mismatches[j].inv_no = b.inv_no
                /\ callResult.mismatches[j].mismatch_type = "Missing in GSTR-2B"

\* the taxpayers of a node list, in its order
TaxpayersIn(c) == SelectSeq(c, LAMBDA n : n \in Gstins)

\* C9: the Circular Transaction Pattern findings are, one for one and in the
\* order the cycles are yielded, the simple cycles with two taxpayers or more,
\* the path of each being the taxpayers of its cycle in the cycle's order; a
\* cycle with one taxpayer has none.
C9_CircularFindings ==
    callResult.fn = "detect_mismatches" =>
        LET G == build_networkx_graph(callArgs.rows, TRUE).G
            circular == SelectSeq(callResult.mismatches,
                                  LAMBDA m : m.mismatch_type = "Circular Transaction Pattern")
            cycles == SelectSeq(callResult.cycles,
                                LAMBDA c : Cardinality(Range(c) \cap Gstins) >= 2)
        IN  /\ Len(circular) = Len(cycles)
            /\ Len(circular) =
                  Cardinality({cl \in CycleClasses(G) :
                                 \E c \in cl : Cardinality(Range(c) \cap Gstins) >= 2})
            /\ \A i \in DOMAIN circular :
                  /\ circular[i].inv_no = "CIRCULAR-PATTERN"
                  /\ circular[i].traversal_path = TaxpayersIn(cycles[i])
                  /\ circular[i].severity = "high"

\* A and B each issue one invoice to the other: one finding, with both in its
\* path
C9_Witness ==
    /\ callResult.fn = "detect_mismatches"
    /\ \E a, b \in Range(callArgs.rows) :
          /\ a.supplier = "A" /\ a.buyer = "B" /\ b.supplier = "B" /\ b.buyer = "A"
          /\ a.inv_no # b.inv_no
    /\ \E i \in DOMAIN callResult.mismatches :
          /\ callResult.mismatches[i].mismatch_type = "Circular Transaction Pattern"
          /\ Range(callResult.mismatches[i].traversal_path) = {"A", "B"}
          /\ \A j \in DOMAIN callResult.mismatches :
                callResult.mismatches[j].mismatch_type = "Circular Transaction Pattern"
                    => j = i

\* the findings of type t that detect_mismatches returned for invoice inv_no
FoundOf(inv_no, t) ==
    {i \in DOMAIN callResult.mismatches :
        /\ callResult.mismatches[i].inv_no = inv_no
        /\ callResult.mismatches[i].mismatch_type = t}

\* C14: for every invoice of the read records, the findings hold one Invalid
\* HSN Code of severity medium when its hsn_code is not empty, is not "nan" and
\* is not 4, 6 or 8 characters long, and none otherwise, whatever its status
\* and its tax rate are.
C14_InvalidHsn ==
    callResult.fn = "detect_mismatches" =>
        \A row \in Range(callArgs.rows) :
            LET hsn == FoundOf(row.inv_no, "Invalid HSN Code")
                invalid == /\ row.hsn_code # ""
                           /\ row.hsn_code # "nan"
                           /\ Len(row.hsn_code) \notin {4, 6, 8}
            IN  /\ Cardinality(hsn) = (IF invalid THEN 1 ELSE 0)
                /\ \A i \in hsn : callResult.mismatches[i].severity = "medium"

\* an invoice of status mismatch with a code of five characters: its Amount
\* Mismatch finding, then its Invalid HSN Code finding
C14_Witness ==
    /\ callResult.fn = "detect_mismatches"
    /\ \E row \in Range(callArgs.rows) :
          /\ row.status = "mismatch" /\ Len(row.hsn_code) = 5
          /\ FoundOf(row.inv_no, "Amount Mismatch") # {}
          /\ FoundOf(row.inv_no, "Invalid HSN Code") # {}

\* C15: for every invoice of the read records, the findings hold one Invalid
\* Tax Rate of severity medium when its tax_rate is not zero and not one of
\* 0, 0.1, 0.25, 1, 1.5, 3, 5, 6, 7.5, 9, 12, 14, 18, 28 (in hundredths here),
\* and none otherwise, whatever its status and its hsn_code are.
C15_InvalidTaxRate ==
    callResult.fn = "detect_mismatches" =>
        \A row \in Range(callArgs.rows) :
            LET tax == FoundOf(row.inv_no, "Invalid Tax Rate")
                invalid == /\ row.tax_rate # 0
                           /\ row.tax_rate \notin {0, 10, 25, 100, 150, 300, 500, 600,
                                                    750, 900, 1200, 1400, 1800, 2800}
            IN  /\ Cardinality(tax) = (IF invalid THEN 1 ELSE 0)
                /\ \A i \in tax : callResult.mismatches[i].severity = "medium"

\* an invoice of status missing and a bad code at the rate 15: its Invalid Tax
\* Rate finding, with the two others
C15_Witness ==
    /\ callResult.fn = "detect_mismatches"
    /\ \E row \in Range(callArgs.rows) :
          /\ row.status = "missing" /\ row.tax_rate = 1500 /\ row.hsn_code = "12345"
          /\ FoundOf(row.inv_no, "Missing in GSTR-2B") # {}
          /\ FoundOf(row.inv_no, "Invalid HSN Code") # {}
          /\ FoundOf(row.inv_no, "Invalid Tax Rate") # {}

\* C16: the fallback narrative (the one returned without a key, and with a key
\* when the service failed) has a description and a root_cause that are not
\* empty for a finding of each of the five types of the tables and for a
\* finding of any other type, whose description and root_cause are the
\* catch-all templates; the finding's own fields are returned as they were.
C16_FallbackTotal ==
    (callResult.fn = "llm_audit" /\ (geminiKey = "" \/ ServiceFailed(callArgs.reply))) =>
        LET m == callArgs.m
            audit == callResult.audit
        IN  /\ DOMAIN audit = DOMAIN m \cup {"description", "root_cause"}
            /\ \A k \in DOMAIN m : audit[k] = m[k]
            /\ audit.description # ""
            /\ audit.root_cause # ""
            /\ m.mismatch_type \notin
                    {"Amount Mismatch", "Missing in GSTR-2B", "Invalid HSN Code",
                     "Invalid Tax Rate", "Circular Transaction Pattern"} =>
                  /\ audit.description =
                        "Mismatch of type '" \o m.mismatch_type
                            \o "' detected on invoice " \o m.inv_no \o "."
                  /\ audit.root_cause
                        = "Manual investigation required to determine root cause."

\* without a key, the narrative of a finding of type Duplicate Invoice
C16_Witness ==
    /\ callResult.fn = "llm_audit"
    /\ geminiKey = ""
    /\ callArgs.m.mismatch_type = "Duplicate Invoice"
    /\ callResult.audit.description
          = "Mismatch of type 'Duplicate Invoice' detected on invoice i1."

\* C10: the entry a turn of the loop writes is stored under the inv_no and
\* mismatch_type of the finding, with its severity, and with a description and
\* a root_cause that are not empty, whatever the service replied.
C10_EntryAsDetected ==
    callResult.fn = "llm_audit" =>
        /\ Len(audits) = 1
        /\ audits[1].inv_no = callArgs.m.inv_no
        /\ audits[1].mismatch_type = callArgs.m.mismatch_type
        /\ audits[1].severity = callArgs.m.severity
        /\ audits[1].description # ""
        /\ audits[1].root_cause # ""

NotNumeric(cell) == cell \notin {"0", "15", "1000", "2000"}

\* the file is malformed input: not named .csv, not parsed, a required column
\* missing, or a row whose amount or tax_rate is no number
Malformed(file) ==
    \/ file.name # "gst.csv"
    \/ ~file.parses
    \/ \E c \in {"supplier_gstin", "buyer_gstin", "inv_no", "amount", "status"} :
          c \notin file.columns
    \/ \E i \in DOMAIN file.rows :
          \/ NotNumeric(file.rows[i].amount)
          \/ "tax_rate" \in file.columns /\ NotNumeric(file.rows[i].tax_rate)

\* C18: an upload of malformed input is answered with an error, leaves the
\* Taxpayer and Invoice nodes and their edges as they were before the request,
\* and schedules no run.
C18_MalformedRejected ==
    (callResult.fn = "upload_gst_data" /\ Malformed(callArgs.file)) =>
        /\ callResult.code # 200
        /\ Graph = callArgs.before
        /\ runs = <<>>

\* C12: a status update is answered 200 only when the value asked for is
\* flagged, reviewed or cleared; with any other value it is answered 400 and
\* every AuditEntry is as it was before the request.
C12_StatusValues ==
    callResult.fn = "update_audit_status" =>
        /\ callResult.code = 200 => callArgs.new_status \in {"flagged", "reviewed", "cleared"}
        /\ callArgs.new_status \notin {"flagged", "reviewed", "cleared"} =>
              /\ callResult.code = 400
              /\ audits = callArgs.before

\* the value resolved was asked for an invoice that has entries, none of them
\* flagged, the store being there: 400, and the entries are as they were
C12_Witness ==
    /\ callResult.fn = "update_audit_status"
    /\ callArgs.new_status = "resolved"
    /\ callArgs.storeOk /\ driver = "connected"
    /\ \E i \in DOMAIN audits : audits[i].inv_no = callArgs.inv_no
    /\ \A i \in DOMAIN audits : audits[i].status # "flagged"
    /\ callResult.code = 400
    /\ audits = callArgs.before

\* the place of the read of run r among the reads of the runs (0: not read yet)
ReadAt(r) ==
    IF \E i \in DOMAIN callArgs : callArgs[i] = r
    THEN CHOOSE i \in DOMAIN callArgs : callArgs[i] = r
    ELSE 0

\* C11: no step removes an AuditEntry or changes its key, so that the keys
\* stored never shrink; and a step changes the status of an entry only when it
\* is a status update answered 200, or the write by a run of the finding of
\* that entry's key, which leaves it flagged.
C11_EntriesKept ==
    [][/\ \A i \in DOMAIN audits :
            i \in DOMAIN audits' /\ KeyOf(audits'[i]) = KeyOf(audits[i])
       /\ \A i \in DOMAIN audits :
            audits'[i].status # audits[i].status =>
                \/ /\ callResult'.fn = "update_audit_status"
                   /\ callResult'.seq = callResult.seq + 1
                   /\ callResult'.code = 200
                   /\ runs' = runs
                \/ /\ callResult' = callResult
                   /\ audits'[i].status = "flagged"
                   /\ \E r \in DOMAIN runs :
                         /\ runs[r].idx >= 1
                         /\ runs'[r].idx = runs[r].idx + 1
                         /\ KeyOf(runs[r].mismatches[runs[r].idx]) = KeyOf(audits[i])]_vars

\* a run wrote a finding; a run that read the store later, the invoice being
\* matched by then, found nothing and is over; the entry is still there
C11_Witness ==
    \E q, r \in DOMAIN runs :
        /\ 0 < ReadAt(q) /\ ReadAt(q) < ReadAt(r)
        /\ runs[r].state = "Idle"
        /\ ~runs[r].readFailed
        /\ runs[r].rows # {}
        /\ runs[r].mismatches = <<>>
        /\ \E j \in Written(q) : EntriesOf(KeyOf(runs[q].mismatches[j])) # {}

\* C17: a reconcile request, and an upload whose rows were all stored, is
\* answered 200 in the step that schedules its run: the run is Scheduled, not
\* started, no other run has moved and no entry was written; a reconcile
\* request is never answered otherwise; and no step of a run changes an answer.
C17_FireAndForget ==
    [][/\ (callResult'.seq # callResult.seq /\ callResult'.code = 200
            /\ callResult'.fn \in {"trigger_reconciliation", "upload_gst_data"}) =>
              /\ runs' = Append(runs, NewRun)
              /\ audits' = audits
              /\ loop' = loop
       /\ (callResult'.seq # callResult.seq
            /\ callResult'.fn = "trigger_reconciliation") => callResult'.code = 200
       /\ (\E r \in DOMAIN runs : runs'[r] # runs[r]) => callResult' = callResult
       /\ Len(runs') > Len(runs) =>
              (callResult'.seq = callResult.seq + 1 /\ callResult'.code = 200)]_vars

\* the last request, a reconcile request, was answered 200; the run it
\* scheduled is over, its read of the store having failed
C17_Witness ==
    /\ callResult.fn = "trigger_reconciliation"
    /\ callResult.code = 200
    /\ runs # <<>>
    /\ runs[Len(runs)].state = "Idle"
    /\ runs[Len(runs)].readFailed
    /\ invoices # <<>>

\* C20: of two runs that are over, neither with a failed read or write, whose
\* reads returned different records, the entry of every key both found has the
\* amount, supplier, buyer, period and severity of the finding of the run that
\* read later.
C20_LaterSnapshotWins ==
    \A r, q \in DOMAIN runs :
        (/\ runs[r].state = "Idle" /\ runs[q].state = "Idle"
         /\ ~runs[r].readFailed /\ ~runs[q].readFailed
         /\ runs[r].failed = {} /\ runs[q].failed = {}
         /\ ReadAt(r) < ReadAt(q)
         /\ runs[r].rows # runs[q].rows) =>
            \A i \in DOMAIN runs[r].mismatches, j \in DOMAIN runs[q].mismatches :
                KeyOf(runs[r].mismatches[i]) = KeyOf(runs[q].mismatches[j]) =>
                    \A k \in EntriesOf(KeyOf(runs[q].mismatches[j])) :
                        /\ audits[k].amount = runs[q].mismatches[j].amount
                        /\ audits[k].supplier_gstin = runs[q].mismatches[j].supplier_gstin
                        /\ audits[k].buyer_gstin = runs[q].mismatches[j].buyer_gstin
                        /\ audits[k].period = runs[q].mismatches[j].period
                        /\ audits[k].severity = runs[q].mismatches[j].severity

\* the place of a finding's check among the checks of detect_mismatches
Rank(m) ==
    CASE m.mismatch_type \in {"Amount Mismatch", "Missing in GSTR-2B"} -> 1
      [] m.mismatch_type = "Invalid HSN Code" -> 2
      [] m.mismatch_type = "Invalid Tax Rate" -> 3
      [] OTHER -> 4

\* the findings of an invoice stand together, its status finding first, then
\* its hsn finding, then its rate finding; the circular findings come last
InDetectionOrder(ms) ==
    \A i, j \in DOMAIN ms :
        i < j =>
            /\ Rank(ms[i]) = 4 => Rank(ms[j]) = 4
            /\ (Rank(ms[j]) # 4 /\ ms[i].inv_no = ms[j].inv_no) =>
                  /\ Rank(ms[i]) < Rank(ms[j])
                  /\ \A k \in i..j : ms[k].inv_no = ms[i].inv_no

\* C19: the findings of a run are in detection order (per invoice: Amount
\* Mismatch or Missing, then Invalid HSN Code, then Invalid Tax Rate; the
\* circular findings behind every invoice's) and do not change; the run goes
\* through them one by one: the entries there are are those of the findings
\* before the one it is at, a step that moves on to the next finding writes
\* the entry of the finding it leaves (or fails to) and no other, and a step
\* that does not move on writes nothing.
C19_DetectionOrder ==
    /\ [](\A r \in DOMAIN runs :
            /\ InDetectionOrder(runs[r].mismatches)
            /\ {KeyOf(audits[k]) : k \in DOMAIN audits}
                  = {KeyOf(runs[r].mismatches[i]) : i \in Written(r)})
    /\ [][\A r \in DOMAIN runs :
            /\ runs[r].mismatches # <<>> => runs'[r].mismatches = runs[r].mismatches
            /\ runs'[r].idx \in {runs[r].idx, runs[r].idx + 1}
            /\ runs'[r].idx = runs[r].idx => audits' = audits
            /\ (runs[r].idx >= 1 /\ runs'[r].idx = runs[r].idx + 1) =>
                  LET m == runs[r].mismatches[runs[r].idx]
                  IN  /\ \A k \in DOMAIN audits :
                            KeyOf(audits[k]) # KeyOf(m) => audits'[k] = audits[k]
                      /\ \A k \in DOMAIN audits' :
                            k \notin DOMAIN audits => KeyOf(audits'[k]) = KeyOf(m)
                      /\ runs[r].idx \notin runs'[r].failed =>
                            \E k \in DOMAIN audits' :
                                /\ KeyOf(audits'[k]) = KeyOf(m)
                                /\ \E audit \in Narratives(m) :
                                      audits'[k].description = audit.description]_vars

\* a run over the five findings of the sample store, the three of i1 together
\* and the circular one last, that has written four and awaits the service for
\* the fifth
C19_Witness ==
    \E r \in DOMAIN runs :
        /\ Len(runs[r].mismatches) = 5
        /\ \E i \in 1..2 :
              /\ runs[r].mismatches[i].mismatch_type = "Amount Mismatch"
              /\ runs[r].mismatches[i + 1].mismatch_type = "Invalid HSN Code"
              /\ runs[r].mismatches[i + 2].mismatch_type = "Invalid Tax Rate"
        /\ runs[r].mismatches[5].mismatch_type = "Circular Transaction Pattern"
        /\ runs[r].idx = 5
        /\ runs[r].pc = "await"
        /\ Written(r) = 1..4
        /\ Len(audits) = 4

CircularKey == <<"CIRCULAR-PATTERN", "Circular Transaction Pattern">>

\* the circular findings among the findings ms, in their order
CircularOf(ms) ==
    SelectSeq(ms, LAMBDA m : m.mismatch_type = "Circular Transaction Pattern")

\* the circular entries among the entries as
CircularEntries(as) ==
    {i \in DOMAIN as : as[i].mismatch_type = "Circular Transaction Pattern"}

\* the entries as hold one circular entry, that of the finding m
HoldsCycle(as, m) ==
    /\ Cardinality(CircularEntries(as)) = 1
    /\ \A i \in CircularEntries(as) :
          /\ KeyOf(as[i]) = CircularKey
          /\ as[i].supplier_gstin = m.supplier_gstin
          /\ as[i].buyer_gstin = m.buyer_gstin
          /\ as[i].traversal_path = Join(m.traversal_path, " -> ")

\* C21: every circular finding of a run has the key (CIRCULAR-PATTERN, Circular
\* Transaction Pattern); when a run that found one cycle or more ends with no
\* write of its own failed, the store holds exactly one circular entry, whose
\* supplier, buyer and path are those of the last circular finding of the run;
\* and in a behaviour of one run, once that run has written a circular finding
\* the store holds exactly one circular entry, that of the circular finding
\* the run wrote last, each write replacing what the one before it left.
C21_LastCycleWins ==
    /\ [](\A r \in DOMAIN runs :
            /\ \A i \in DOMAIN runs[r].mismatches :
                  runs[r].mismatches[i].mismatch_type = "Circular Transaction Pattern"
                      => KeyOf(runs[r].mismatches[i]) = CircularKey
            /\ (Len(runs) = 1 /\ runs[r].failed = {}) =>
                  LET circ == CircularOf(SubSeq(runs[r].mismatches, 1, runs[r].idx - 1))
                  IN  IF circ = <<>> THEN CircularEntries(audits) = {}
                      ELSE HoldsCycle(audits, circ[Len(circ)]))
    /\ [][\A r \in DOMAIN runs :
            LET circ == CircularOf(runs[r].mismatches)
            IN  (/\ runs[r].state = "Running" /\ runs'[r].state = "Idle"
                 /\ runs'[r].failed = {}
                 /\ circ # <<>>) => HoldsCycle(audits', circ[Len(circ)])]_vars

\* a run found the two cycles, the first from B on and the second from A on,
\* wrote both without a failure and is over: the one circular entry there is
\* has A as its supplier and B as its buyer
C21_Witness ==
    \E r \in DOMAIN runs :
        LET circ == CircularOf(runs[r].mismatches)
        IN  /\ runs[r].state = "Idle"
            /\ runs[r].failed = {}
            /\ Len(circ) = 2
            /\ circ[1].traversal_path = <<"B", "A">>
            /\ circ[2].traversal_path = <<"A", "B">>
            /\ Cardinality(CircularEntries(audits)) = 1
            /\ \A i \in CircularEntries(audits) :
                  /\ audits[i].supplier_gstin = "A"
                  /\ audits[i].buyer_gstin = "B"
                  /\ audits[i].traversal_path = Join(<<"A", "B">>, " -> ")

\* C22: a status update with one of the three statuses, the store being
\* there, is answered 200 when an entry of inv_no exists, and then every entry
\* of inv_no, of whatever mismatch type, has the new status and is otherwise
\* as before, every entry of another inv_no is as before, and no entry was
\* added or removed; when no entry of inv_no exists it is answered 404 and
\* every entry is as before.
C22_StatusFrame ==
    (/\ callResult.fn = "update_audit_status"
     /\ callArgs.new_status \in {"flagged", "reviewed", "cleared"}
     /\ driver = "connected" /\ callArgs.storeOk) =>
        LET before == callArgs.before
        IN  IF \E i \in DOMAIN before : before[i].inv_no = callArgs.inv_no
            THEN /\ callResult.code = 200
                 /\ DOMAIN audits = DOMAIN before
                 /\ \A i \in DOMAIN before :
                       IF before[i].inv_no = callArgs.inv_no
                       THEN /\ audits[i].status = callArgs.new_status
                            /\ DOMAIN audits[i] = DOMAIN before[i]
                            /\ \A k \in DOMAIN before[i] :
                                  k # "status" => audits[i][k] = before[i][k]
                       ELSE audits[i] = before[i]
            ELSE /\ callResult.code = 404
                 /\ audits = before

\* cleared was asked for i1, whose two entries, of two mismatch types, were
\* flagged and reviewed: both are cleared, and the entry of i2 is reviewed as
\* it was
C22_Witness ==
    /\ callResult.fn = "update_audit_status"
    /\ callResult.code = 200
    /\ callArgs.inv_no = "i1" /\ callArgs.new_status = "cleared"
    /\ \E i, j, k \in DOMAIN audits :
          /\ audits[i].inv_no = "i1" /\ audits[j].inv_no = "i1"
          /\ audits[i].mismatch_type # audits[j].mismatch_type
          /\ callArgs.before[i].status = "flagged"
          /\ callArgs.before[j].status = "reviewed"
          /\ audits[i].status = "cleared" /\ audits[j].status = "cleared"
          /\ audits[k].inv_no = "i2"
          /\ audits[k].status = "reviewed"
          /\ audits[k] = callArgs.before[k]

====
